---- MODULE Spec2Model ----
(***************************************************************************)
(* Quote acquisition and mock fallback of the stock dashboard.             *)
(*                                                                         *)
(* Two entry points are modelled, each as a step machine:                  *)
(*   fetchStocks (client, api.ts)       : Alpha Vantage, one call a symbol *)
(*   handler     (serverless, stocks.ts): Finnhub, then Alpha Vantage      *)
(* A behaviour is one invocation of one entry point; Init draws the entry  *)
(* point, the credentials and the request.                                 *)
(*                                                                         *)
(* Strings are sequences of one-character strings, so that trim,           *)
(* toUpperCase, split and join are computed and not assumed.               *)
(***************************************************************************)
EXTENDS Integers, Sequences, FiniteSets, TLC

(***************************************************************************)
(* Bounds of the model.                                                    *)
(***************************************************************************)
\* longest list of raw symbols a request carries
MaxLen == 2

\* how many calls of the mock generators are compared
MaxMocks == 2

(***************************************************************************)
(* Strings.                                                                *)
(***************************************************************************)
Lower == <<"a","b","c","d","e","f","g","h","i","j","k","l","m",
           "n","o","p","q","r","s","t","u","v","w","x","y","z">>
Upper == <<"A","B","C","D","E","F","G","H","I","J","K","L","M",
           "N","O","P","Q","R","S","T","U","V","W","X","Y","Z">>

\* String.prototype.toUpperCase, one character
ToUpperChar(c) ==
  IF \E k \in DOMAIN Lower : Lower[k] = c
  THEN Upper[CHOOSE k \in DOMAIN Lower : Lower[k] = c]
  ELSE c

\* String.prototype.toUpperCase
ToUpperCase(s) == [k \in DOMAIN s |-> ToUpperChar(s[k])]

IsSpace(c) == c \in {" ", "\t"}

\* String.prototype.trim: white space is dropped at both ends only
TrimTo(s, keep) ==
  IF keep = {} THEN <<>>
  ELSE SubSeq(s, CHOOSE k \in keep : \A m \in keep : k <= m,
                 CHOOSE k \in keep : \A m \in keep : m <= k)

Trim(s) == TrimTo(s, {k \in DOMAIN s : ~IsSpace(s[k])})

\* String.prototype.split(","): the pieces between the commas, empty ones kept
RECURSIVE SplitComma(_)
SplitComma(s) ==
  LET commas == {k \in DOMAIN s : s[k] = ","}
  IN  IF commas = {} THEN <<s>>
      ELSE LET c == CHOOSE k \in commas : \A m \in commas : k <= m
           IN  <<SubSeq(s, 1, c - 1)>> \o SplitComma(SubSeq(s, c + 1, Len(s)))

\* Array.prototype.join(",")
RECURSIVE JoinComma(_)
JoinComma(l) ==
  IF l = <<>> THEN <<>>
  ELSE IF Len(l) = 1 THEN l[1]
  ELSE l[1] \o <<",">> \o JoinComma(Tail(l))

\* Array.prototype.filter(Boolean) on strings: the empty string is falsy
RECURSIVE FilterBoolean(_)
FilterBoolean(l) ==
  IF l = <<>> THEN <<>>
  ELSE (IF l[1] = <<>> THEN <<>> ELSE <<l[1]>>) \o FilterBoolean(Tail(l))

\* Array.from(new Set(l)): a Set keeps the insertion order of first occurrences
RECURSIVE ArrayFromSet(_)
ArrayFromSet(l) ==
  IF l = <<>> THEN <<>>
  ELSE LET front == ArrayFromSet(SubSeq(l, 1, Len(l) - 1))
           last  == l[Len(l)]
       IN  IF \E k \in DOMAIN front : front[k] = last THEN front
           ELSE Append(front, last)

\* s.trim().toUpperCase()
NormalizeOne(s) == ToUpperCase(Trim(s))

\* l.map((s) => s.trim().toUpperCase())
NormalizeEach(l) == [k \in DOMAIN l |-> NormalizeOne(l[k])]

\* NormalizeList with the de-duplication left out
NormalizeListKeepingDuplicates(l) == FilterBoolean(NormalizeEach(l))

\* the expression both entry points normalize a symbol list with
NormalizeList(l) == ArrayFromSet(FilterBoolean(NormalizeEach(l)))

AAPL  == <<"A","A","P","L">>
MSFT  == <<"M","S","F","T">>
GOOGL == <<"G","O","O","G","L">>
AMZN  == <<"A","M","Z","N">>
NVDA  == <<"N","V","D","A">>
TSLA  == <<"T","S","L","A">>
META  == <<"M","E","T","A">>

defaultSymbols == <<AAPL, MSFT, GOOGL, AMZN, NVDA>>

\* uniqueSymbols(syms): syms is a string, or Undefined when the query has none
Undefined == <<"undefined">>
uniqueSymbols(syms) ==
  NormalizeList(SplitComma(IF syms = Undefined THEN JoinComma(defaultSymbols) ELSE syms))

(***************************************************************************)
(* Numbers.  A JavaScript number-or-undefined is a record: a finite number *)
(* carries its value in hundredths, NaN and undefined carry none.          *)
(***************************************************************************)
JNum(v) == [k |-> "num", v |-> v]
JNaN    == [k |-> "nan", v |-> 0]
JUndef  == [k |-> "undef", v |-> 0]

Digits == <<"0","1","2","3","4","5","6","7","8","9">>
IsDigit(c) == \E k \in DOMAIN Digits : Digits[k] = c
DigitVal(c) == (CHOOSE k \in DOMAIN Digits : Digits[k] = c) - 1

RECURSIVE NatOf(_)
NatOf(ds) == IF ds = <<>> THEN 0 ELSE NatOf(SubSeq(ds, 1, Len(ds) - 1)) * 10 + DigitVal(ds[Len(ds)])

\* the value of the digits whole, a point, the digits frac: two fraction digits
\* are kept
DecimalValue(whole, frac) == NatOf(whole) * 100 + NatOf(SubSeq(frac \o <<"0", "0">>, 1, 2))

\* an unsigned decimal literal: digits with at most one point, and not a point alone
UnsignedOf(body, dots) ==
  IF \/ \E k \in DOMAIN body : ~IsDigit(body[k]) /\ body[k] # "."
     \/ Cardinality(dots) > 1
     \/ \A k \in DOMAIN body : body[k] = "."
  THEN JNaN
  ELSE IF dots = {} THEN JNum(DecimalValue(body, <<>>))
  ELSE JNum(DecimalValue(SubSeq(body, 1, (CHOOSE k \in dots : TRUE) - 1),
                         SubSeq(body, (CHOOSE k \in dots : TRUE) + 1, Len(body))))

Negate(n) == IF n.k = "num" THEN JNum(0 - n.v) ELSE n

\* a trimmed literal: the empty string is 0, then an optional sign
SignedOf(t) ==
  IF t = <<>> THEN JNum(0)
  ELSE IF t[1] = "-" THEN Negate(UnsignedOf(Tail(t), {k \in DOMAIN Tail(t) : Tail(t)[k] = "."}))
  ELSE IF t[1] = "+" THEN UnsignedOf(Tail(t), {k \in DOMAIN Tail(t) : Tail(t)[k] = "."})
  ELSE UnsignedOf(t, {k \in DOMAIN t : t[k] = "."})

\* Number(s) for the decimal literals the payloads carry: white space is
\* trimmed, the empty string is 0; what is no decimal literal is NaN
NumberOf(s) == SignedOf(Trim(s))

\* s.replace(/[,%]/g, "").replace(/,/g, "")
StripCommaPercent(s) == SelectSeq(s, LAMBDA c : c \notin {",", "%"})

\* num of the client (api.ts): a value that is not finite becomes undefined
FiniteOrUndefined(n) == IF n.k = "num" THEN n ELSE JUndef

num(s) ==
  IF s = Undefined THEN JUndef
  ELSE FiniteOrUndefined(NumberOf(Trim(StripCommaPercent(s))))

\* num of the serverless function (alphaVantageQuote): NaN is returned as it is
numServer(x) ==
  IF x = Undefined THEN JUndef
  ELSE NumberOf(StripCommaPercent(x))

\* x == null, for a number-or-undefined
IsNullish(n) == n.k = "undef"

(***************************************************************************)
(* Quote records.  A StockData is a record of                              *)
(*   symbol, price, change, changePercent, marketCap, volume, lastUpdated  *)
(* plus src, which is not a field of the program: it records which         *)
(* adapter or generator built the row.                                     *)
(* Units of the numbers: price and change in cents, changePercent in       *)
(* hundredths of a percent; a mock row's marketCap is in 10^9 and its      *)
(* volume in thousands (parsed provider numbers stay in hundredths).       *)
(***************************************************************************)
Null == [isNull |-> TRUE]

\* new Date().toISOString(), and the 16:00Z instant of a trading day
Now == [kind |-> "now", day |-> <<>>]
CloseOf(day) == [kind |-> "close", day |-> day]

\* a / b rounded to the nearest integer, halves up (Math.round, toFixed)
RoundDiv(a, b) == (a + b \div 2) \div b

Max(a, b) == IF a >= b THEN a ELSE b

(***************************************************************************)
(* The mock generators.  Math.sin is tabulated: the minute bucket          *)
(* floor(Date.now() / 60000) is one of MinuteBuckets, and the fraction r   *)
(* in [0, 1) is carried in units of 10^-4.                                 *)
(***************************************************************************)
MinuteBuckets == {29500000, 29500001}

JitterRow0 ==
  <<
    3859,3606,1264,5823,8643,6172,9576,7913,1466,9252,6448,4486,6574,2678,
    3597,9346,7865,6605,3413,9563,2158,6766,196,4481,4396,1646,2101,2439,6485,
    1417,204,6206,6217,8761,6552,4419,4900,9685,3382,9476,2727,5256,9376,1884,
    3780,2614,1159,3912,6347,4470,5550,7881,9840,2432,9059,4247,7075,4665,
    7685,2398,5730,5035,356,8871,4417,7659,2900,868,8317,4109,4333,2520,1656,
    1266,1044,4493,9324,4193,1191,4980,4070,3928,4155,8840,7703,6240,7575,
    5643,2187,4229,1011,7569,9343,6241,1719,8168,9051,4236,4039,5359,231,6033,
    8498,5770,182,3908,4920,3779,8298,9782,2587,2063,4746,1088,3622,6029,6149,
    4248,7339,4810,1956,2283,7082,3039,3793,4912,9949,633
  >>
JitterRow1 ==
  <<
    4770,751,915,4212,7983,4265,1132,6071,907,7474,2317,8842,3221,5235,6591,
    8671,2126,3043,3400,3748,4389,700,5870,9516,6476,7245,5285,1840,3252,3135,
    8852,4234,8402,9197,7348,3601,5836,626,6808,7987,7822,6006,43,2606,67,
    5320,696,6727,5708,8596,7647,8477,7742,348,1626,3072,6522,9201,5233,5970,
    8015,5938,5167,7153,6238,9275,1523,7788,6285,542,7464,1864,2848,5973,3476,
    7663,1330,2350,3175,8318,1994,1985,5174,2050,3425,8903,6522,2204,628,5612,
    2632,2438,681,7420,7086,2118,9843,1802,222,7962,7296,9463,9468,2834,6773,
    5717,7985,4769,3542,1402,1022,3529,6670,4629,3584,4987,1485,6817,4156,
    9689,3001,3093,6508,3134,843,8280,6918,8903
  >>
ServerRRow0 ==
  <<
    492,5041,9471,1023,4028,9831,1718,3055,9992,2550,2163,9945,3483,1389,9694,
    4478
  >>
ServerRRow1 ==
  <<
    4384,815,9298,5401,347,8692,6402,73,7934,7344,2,7053,8189,138,6088,8902
  >>

\* String.prototype.charCodeAt(0) of a non-empty string
CharCodeAt0(s) ==
  LET c == s[1]
  IN  IF \E k \in DOMAIN Upper : Upper[k] = c
      THEN 64 + (CHOOSE k \in DOMAIN Upper : Upper[k] = c)
      ELSE IF \E k \in DOMAIN Lower : Lower[k] = c
      THEN 96 + (CHOOSE k \in DOMAIN Lower : Lower[k] = c)
      ELSE IF IsDigit(c) THEN 48 + DigitVal(c)
      ELSE 46

\* MOCK_PRESETS (the same table in both files): price in cents, cap in 10^9,
\* vol in thousands
HasPreset(symbol) == symbol \in {AAPL, MSFT, GOOGL, AMZN, NVDA, TSLA, META}
MOCK_PRESETS(symbol) ==
  CASE symbol = AAPL  -> [price |-> 23012, cap |-> 3550, vol |-> 58000]
    [] symbol = MSFT  -> [price |-> 43034, cap |-> 3200, vol |-> 29000]
    [] symbol = GOOGL -> [price |-> 16877, cap |-> 2100, vol |-> 26000]
    [] symbol = AMZN  -> [price |-> 17845, cap |-> 1850, vol |-> 41200]
    [] symbol = NVDA  -> [price |-> 12165, cap |-> 2900, vol |-> 52400]
    [] symbol = TSLA  -> [price |-> 24902, cap |-> 770,  vol |-> 95000]
    [] symbol = META  -> [price |-> 51222, cap |-> 1300, vol |-> 19000]

\* the minute bucket with a boundary every 30 seconds
HalfMinuteOf(now) == 29500000 + ((now \div 30) % 2)

\* jitter(seed) of api.ts at minute bucket t: the fraction of sin(seed*997+t)*10000
jitter(seed, t) ==
  IF t = 29500000 THEN JitterRow0[seed + 1] ELSE JitterRow1[seed + 1]

\* makeMockRow(symbol, i) of api.ts, generated at minute bucket t
makeMockRow(symbol, i, t) ==
  LET b   == IF HasPreset(symbol) THEN MOCK_PRESETS(symbol)
             ELSE [price |-> (100 + (i % 8) * 9) * 100, cap |-> 100 + i * 7,
                   vol |-> 5000 + i * 250]
      r   == jitter(i + CharCodeAt0(symbol), t)
      pct == r * 6 - 30000
      price == b.price + RoundDiv(b.price * pct, 1000000)
      changePercent == RoundDiv(pct, 100)
      change == RoundDiv(price * changePercent, 10000)
      volume == Max(1, RoundDiv((b.vol \div 50) * (85000 + 3 * r), 2000))
  IN  [symbol |-> symbol, price |-> JNum(price), change |-> JNum(change),
       changePercent |-> JNum(changePercent), marketCap |-> JNum(b.cap),
       volume |-> JNum(volume), lastUpdated |-> Now, src |-> "mock"]

\* buildMock(symbols) of api.ts: the list is normalized again, and the default
\* set stands in for an empty one
buildMock(symbols, t) ==
  LET uniq == NormalizeList(symbols)
      list == IF Len(uniq) > 0 THEN uniq ELSE defaultSymbols
  IN  [k \in DOMAIN list |-> makeMockRow(list[k], k - 1, t)]

\* mockData(symbols) of the serverless function, generated at minute bucket t
serverR(i, t) ==
  IF t = 29500000 THEN ServerRRow0[i + 1] ELSE ServerRRow1[i + 1]

mockRowServer(s, i, t) ==
  LET base == IF HasPreset(s) THEN MOCK_PRESETS(s)
              ELSE [price |-> (100 + (i % 7) * 7) * 100, cap |-> 100,
                    vol |-> 5000 + i * 150]
      r   == serverR(i, t)
      pct == r * 6 - 30000
      price == base.price + RoundDiv(base.price * pct, 1000000)
      changePercent == RoundDiv(pct, 100)
      change == RoundDiv(price * changePercent, 10000)
      volume == Max(1, RoundDiv((base.vol \div 50) * (80000 + 4 * r), 2000))
  IN  [symbol |-> s, price |-> JNum(price), change |-> JNum(change),
       changePercent |-> JNum(changePercent), marketCap |-> JNum(base.cap),
       volume |-> JNum(volume), lastUpdated |-> Now, src |-> "mock"]

MockUnavailable == "Using mock data (provider unavailable or rate-limited)."

mockData(symbols, t) ==
  [stocks |-> [k \in DOMAIN symbols |-> mockRowServer(symbols[k], k - 1, t)],
   error  |-> MockUnavailable]

(***************************************************************************)
(* Provider responses.  A response is what one HTTP call gives:            *)
(*   net  : "ok", or "reject" when fetch rejects (timeout, connection)     *)
(*   json : "ok", or "reject" when the body is not JSON                    *)
(*   isNull : the body is the JSON value null                              *)
(* and the fields of the body the adapters read.  A string field that the  *)
(* body does not have is Undefined.                                        *)
(***************************************************************************)
\* Boolean(x) of a string-or-undefined: undefined and "" are falsy
Truthy(x) == x # Undefined /\ x # <<>>

\* a result of an async function: it returns a value or it throws (rejects)
Return(v) == [tag |-> "return", value |-> v]
Throw == [tag |-> "throw", value |-> Null]

\* the "Global Quote" object with no key
EmptyGQ ==
  [sym01 |-> Undefined, price |-> Undefined, volume |-> Undefined,
   latestDay |-> Undefined, change |-> Undefined, changePercent |-> Undefined]

\* Object.keys(g).length
KeyCount(g) ==
  Cardinality({f \in {"sym01", "price", "volume", "latestDay", "change", "changePercent"} :
                 g[f] # Undefined})

\* Date.parse(day) is a number: day has the form dddd-dd-dd or dddd-dd-ddTdd:dd
DateParses(day) ==
  /\ Len(day) \in {10, 16}
  /\ \A k \in DOMAIN day :
       IF k \in {5, 8} THEN day[k] = "-"
       ELSE IF k = 11 THEN day[k] = "T"
       ELSE IF k = 14 THEN day[k] = ":"
       ELSE IsDigit(day[k])

\* lastUpdated, the same expression in fetchQuote and alphaVantageQuote
LastUpdatedOf(latestDay) ==
  IF Truthy(latestDay) /\ DateParses(latestDay) THEN CloseOf(latestDay) ELSE Now

\* new Date(`${latestDay}T16:00:00Z`).toISOString() throws a RangeError when
\* Date.parse accepts latestDay but not latestDay followed by T16:00:00Z
CloseThrows(latestDay) ==
  Truthy(latestDay) /\ DateParses(latestDay) /\ Len(latestDay) # 10

\* rateLimited(obj) of api.ts
rateLimited(obj) == Truthy(obj.Note) \/ Truthy(obj.Information)

\* lines 90-105 of api.ts: the row of a non-empty "Global Quote", or null
QuoteRow(symbol, g, price, change, changePercent, volume) ==
  IF IsNullish(price) \/ IsNullish(change) \/ IsNullish(changePercent)
  THEN Return(Null)
  ELSE IF CloseThrows(g.latestDay) THEN Throw
  ELSE Return([symbol |-> IF Truthy(g.sym01) THEN g.sym01 ELSE symbol,
               price |-> price, change |-> change,
               changePercent |-> changePercent, marketCap |-> JUndef,
               volume |-> volume, lastUpdated |-> LastUpdatedOf(g.latestDay),
               src |-> "alphavantage"])

\* the body of fetchQuote's try block (api.ts)
fetchQuoteTry(symbol, resp) ==
  IF resp.net = "reject" THEN Throw
  ELSE IF resp.json = "reject" THEN Throw
  ELSE IF resp.isNull THEN Throw      \* data["Global Quote"] of null: TypeError
  ELSE IF rateLimited(resp) THEN Return(Null)
  ELSE IF ~resp.hasGQ \/ KeyCount(resp.gq) = 0 THEN Return(Null)
  ELSE QuoteRow(symbol, resp.gq, num(resp.gq.price), num(resp.gq.change),
                num(resp.gq.changePercent), num(resp.gq.volume))

\* fetchQuote with no catch block: the exception goes to the caller
CatchReturnNullMissing(r) == r

\* try { ... } catch { return null }
CatchReturnNull(r) == IF r.tag = "throw" THEN Return(Null) ELSE r

\* fetchQuote(symbol) of api.ts, given the provider's response
fetchQuote(symbol, resp) == CatchReturnNull(fetchQuoteTry(symbol, resp))

\* finnhubQuote(symbol, token), given the responses of the quote call (q) and
\* of the profile call (p); the fields of q are numbers or JUndef (no number)
finnhubQuote(symbol, q, p) ==
  IF q.net = "reject" \/ q.json = "reject" THEN Throw
  ELSE IF q.isNull \/ q.c.k # "num" THEN Return(Null)
  ELSE IF p.net = "reject" THEN Throw   \* await fetch(profile2) is not caught
  ELSE LET \* profileRes.json().catch(() => ({})), then p?.marketCapitalization
           mc  == IF p.json = "reject" \/ p.isNull THEN JUndef ELSE p.marketCapitalization
           cap == IF mc.k = "num" THEN mc ELSE JUndef
           prevClose == IF q.pc.k = "num" THEN q.pc.v ELSE 0
           change == IF q.d.k = "num" THEN q.d.v ELSE q.c.v - prevClose
           changePercent ==
             IF q.dp.k = "num" THEN q.dp.v
             ELSE IF prevClose # 0 THEN RoundDiv(change * 10000, prevClose) ELSE 0
       IN  Return([symbol |-> symbol, price |-> q.c, change |-> JNum(change),
                   changePercent |-> JNum(changePercent), marketCap |-> cap,
                   volume |-> IF q.v.k = "num" THEN q.v ELSE JUndef,
                   lastUpdated |-> Now, src |-> "finnhub"])

\* lines 109-117 of the serverless function: the market capitalization of the
\* OVERVIEW response; fetch(...).then(r2 => r2.json()).catch(() => ({}))
OverviewCap(o) ==
  IF o.net = "reject" \/ o.json = "reject" \/ o.isNull THEN JUndef
  ELSE IF Truthy(o.Note) THEN JUndef
  ELSE numServer(o.MarketCapitalization)

\* lines 107-133: the row of a "Global Quote", or null
ServerQuoteRow(symbol, g, price, change, changePercent, volume, cap) ==
  IF IsNullish(price) \/ IsNullish(change) \/ IsNullish(changePercent)
  THEN Return(Null)
  ELSE IF CloseThrows(g.latestDay) THEN Throw
  ELSE Return([symbol |-> symbol, price |-> price, change |-> change,
               changePercent |-> changePercent, marketCap |-> cap,
               volume |-> volume, lastUpdated |-> LastUpdatedOf(g.latestDay),
               src |-> "alphavantage"])

\* alphaVantageQuote(symbol, key), given the responses of the GLOBAL_QUOTE call
\* (r) and of the OVERVIEW call (o)
alphaVantageQuote(symbol, r, o) ==
  IF r.net = "reject" \/ r.json = "reject" THEN Throw
  ELSE IF ~r.isNull /\ Truthy(r.Note) THEN Return(Null)
  ELSE IF r.isNull \/ ~r.hasGQ THEN Return(Null)
  ELSE ServerQuoteRow(symbol, r.gq, numServer(r.gq.price), numServer(r.gq.change),
                      numServer(r.gq.changePercent), numServer(r.gq.volume),
                      OverviewCap(o))

\* promise.catch(() => null), as fromFinnhub and fromAV wrap each adapter call
CatchNull(r) == IF r.tag = "throw" THEN Return(Null) ELSE r

(***************************************************************************)
(* The responses the providers are let to give.                            *)
(***************************************************************************)
Str_230_12   == <<"2","3","0",".","1","2">>
Str_1234_56  == <<"1",",","2","3","4",".","5","6">>
Str_abc      == <<"a","b","c">>
Str_1_50     == <<"1",".","5","0">>
Str_0_65pct  == <<"0",".","6","5","%">>
Str_1200     == <<"1",",","2","0","0">>
Str_Day      == <<"2","0","2","4","-","0","1","-","0","2">>
Str_DayTime  == Str_Day \o <<"T","1","0",":","0","0">>
Str_NoDay    == <<"n","/","a">>
Str_Limit    == <<"l","i","m","i","t">>
ZZ           == <<"Z","Z">>

\* a GLOBAL_QUOTE body
Body(note, information, hasGQ, gq) ==
  [net |-> "ok", json |-> "ok", isNull |-> FALSE, Note |-> note,
   Information |-> information, hasGQ |-> hasGQ, gq |-> gq]

GQ(sym01, price, change, changePercent, latestDay) ==
  [sym01 |-> sym01, price |-> price, volume |-> Str_1200, latestDay |-> latestDay,
   change |-> change, changePercent |-> changePercent]

\* the symbols a payload reports in "01. symbol": none, "", or a ticker
ReportedSymbols == {Undefined, <<>>, AAPL, MSFT, ZZ}

GlobalQuoteFailures ==
  { [Body(Undefined, Undefined, FALSE, EmptyGQ) EXCEPT !.net = "reject"],
    [Body(Undefined, Undefined, FALSE, EmptyGQ) EXCEPT !.json = "reject"],
    [Body(Undefined, Undefined, FALSE, EmptyGQ) EXCEPT !.isNull = TRUE],
    Body(Str_Limit, Undefined, FALSE, EmptyGQ),
    Body(Undefined, Str_Limit, FALSE, EmptyGQ),
    Body(Undefined, Undefined, FALSE, EmptyGQ),
    Body(Undefined, Undefined, TRUE, EmptyGQ),
    Body(Undefined, Undefined, TRUE, GQ(Undefined, Undefined, Str_1_50, Str_0_65pct, Str_Day)),
    Body(Undefined, Undefined, TRUE, GQ(Undefined, Str_230_12, Undefined, Str_0_65pct, Str_Day)),
    Body(Undefined, Undefined, TRUE, GQ(Undefined, Str_230_12, Str_1_50, Undefined, Str_Day)),
    Body(Undefined, Undefined, TRUE, GQ(Undefined, Str_abc, Str_1_50, Str_0_65pct, Str_Day)),
    Body(Undefined, Undefined, TRUE, GQ(Undefined, Str_230_12, Str_1_50, Str_0_65pct, Str_DayTime)) }

GlobalQuoteUsable ==
  { Body(Undefined, Undefined, TRUE, GQ(s, Str_230_12, Str_1_50, Str_0_65pct, Str_Day)) :
      s \in ReportedSymbols }
  \cup { Body(Undefined, Undefined, TRUE, GQ(Undefined, Str_1234_56, <<>>, Str_0_65pct, Str_NoDay)) }

GlobalQuoteResponses == GlobalQuoteFailures \cup GlobalQuoteUsable

\* a usable GLOBAL_QUOTE body that echoes nothing the adapters distrust
PlainQuote == Body(Undefined, Undefined, TRUE, GQ(Undefined, Str_230_12, Str_1_50, Str_0_65pct, Str_Day))

\* OVERVIEW bodies (Alpha Vantage market capitalization)
Overview(note, cap) ==
  [net |-> "ok", json |-> "ok", isNull |-> FALSE, Note |-> note,
   MarketCapitalization |-> cap]

OverviewResponses ==
  { [Overview(Undefined, Undefined) EXCEPT !.net = "reject"],
    [Overview(Undefined, Undefined) EXCEPT !.json = "reject"],
    [Overview(Undefined, Undefined) EXCEPT !.isNull = TRUE],
    Overview(Str_Limit, Undefined),
    Overview(Undefined, Undefined),
    Overview(Undefined, Str_abc),
    Overview(Undefined, Str_1200) }

\* the two responses of one alphaVantageQuote: every GLOBAL_QUOTE failure, and
\* a usable quote with every OVERVIEW response
AVExchanges ==
  { <<r, Overview(Undefined, Undefined)>> : r \in GlobalQuoteFailures }
  \cup { <<PlainQuote, o>> : o \in OverviewResponses }

\* Finnhub quote bodies: c, d, dp, pc, v are numbers, or JUndef when the body
\* has no number there
FinnQuote(c, d, dp, pc) ==
  [net |-> "ok", json |-> "ok", isNull |-> FALSE, c |-> c, d |-> d, dp |-> dp,
   pc |-> pc, v |-> JUndef]

FinnQuoteResponses ==
  { [FinnQuote(JUndef, JUndef, JUndef, JUndef) EXCEPT !.net = "reject"],
    [FinnQuote(JUndef, JUndef, JUndef, JUndef) EXCEPT !.json = "reject"],
    [FinnQuote(JUndef, JUndef, JUndef, JUndef) EXCEPT !.isNull = TRUE],
    FinnQuote(JUndef, JUndef, JUndef, JUndef),
    FinnQuote(JNum(23012), JNum(150), JNum(65), JNum(22862)),
    FinnQuote(JNum(23012), JUndef, JUndef, JNum(22862)) }

\* Finnhub profile2 bodies
FinnProfile(cap) ==
  [net |-> "ok", json |-> "ok", isNull |-> FALSE, marketCapitalization |-> cap]

FinnProfileResponses ==
  { [FinnProfile(JUndef) EXCEPT !.net = "reject"],
    [FinnProfile(JUndef) EXCEPT !.json = "reject"],
    [FinnProfile(JUndef) EXCEPT !.isNull = TRUE],
    FinnProfile(JUndef),
    FinnProfile(JNum(3550)) }

FullFinnQuote == FinnQuote(JNum(23012), JNum(150), JNum(65), JNum(22862))

\* the two responses of one finnhubQuote: every quote response, and a usable
\* quote with every profile response
FinnhubExchanges ==
  { <<q, FinnProfile(JNum(3550))>> : q \in FinnQuoteResponses }
  \cup { <<FullFinnQuote, p>> : p \in FinnProfileResponses }

(***************************************************************************)
(* State.                                                                  *)
(***************************************************************************)
VARIABLES
  entry,         \* the entry point invoked: "fetchStocks" or "handler"
  API_KEY,       \* api.ts: VITE_ALPHA_VANTAGE_KEY is set
  FINN_KEY,      \* stocks.ts: FINNHUB_KEY is set
  AV_KEY,        \* stocks.ts: ALPHA_VANTAGE_KEY is set
  inputSymbols,  \* fetchStocks' argument
  query,         \* handler: req.query.symbols, a string or Undefined
  pc,            \* where the invocation stands
  symbols,       \* the normalized symbol list
  i,             \* the loop index (from 0)
  rows,          \* fetchStocks: rows
  failed,        \* fetchStocks: failed
  out,           \* fromFinnhub / fromAV: out
  resp,          \* handler: resp
  result,        \* what the caller gets: fetchStocks' value, the handler's body
  status,        \* handler: the HTTP status sent (0: none yet)
  outcome,       \* "pending", "resolved", or "rejected" (an exception escaped)
  calls,         \* every provider call made: its provider, symbol and whether it gave a row
  caught,        \* an adapter threw and the exception was caught (a history variable)
  sleeps,        \* how many courtesy delays were taken
  mockLog,       \* the mock generations made on their own: the generator, the
                 \* time of the call and the rows it gave
  inv,           \* concurrent invocations: the local variables of each, with the
                 \* responses its own calls got (log) and the minute of its mocks (t)
  app            \* App.tsx: the React state of the component, the loads in flight
                 \* and the load that settled last

vars == <<entry, API_KEY, FINN_KEY, AV_KEY, inputSymbols, query, pc, symbols, i,
          rows, failed, out, resp, result, status, outcome, calls, sleeps, caught,
          mockLog, inv, app>>

config == <<entry, API_KEY, FINN_KEY, AV_KEY, inputSymbols, query>>

\* the raw symbols a request is built from
Str_aapl == <<"a","a","p","l">>
Str_msft == <<" ","m","s","f","t"," ">>
Str_zz   == <<"z","z">>
RawSymbols == {Str_aapl, AAPL, Str_msft, Str_zz, <<>>}

RECURSIVE SeqsUpTo(_, _)
SeqsUpTo(S, n) ==
  IF n = 0 THEN {<<>>}
  ELSE LET shorter == SeqsUpTo(S, n - 1)
       IN  shorter \cup {Append(l, x) : l \in {m \in shorter : Len(m) = n - 1}, x \in S}

\* the request of the specification's scenario: ["aapl", "AAPL", " msft "]
ScenarioRequest == <<Str_aapl, AAPL, Str_msft>>

\* a request of three distinct symbols, none of them first in the presets
ThreeRequest == <<Str_zz, Str_msft, Str_aapl>>

RawLists == SeqsUpTo(RawSymbols, MaxLen) \cup {ScenarioRequest, ThreeRequest}

\* an error field that is not there
NoError == "(no error)"
NoResult == [stocks |-> <<>>, error |-> NoError]

NoKeyError == "No Alpha Vantage key found. Showing mock data."
NoDataError == "Alpha Vantage daily limit reached or no data returned. Showing mock data."
PartialError ==
  "Some symbols could not be refreshed (likely rate limit). Mock data shown for those entries."
FinnhubUnavailable == "Finnhub unavailable."
AVUnavailable == "Alpha Vantage unavailable."

Init ==
  /\ entry \in {"fetchStocks", "handler"}
  /\ IF entry = "fetchStocks"
     THEN /\ API_KEY \in BOOLEAN
          /\ FINN_KEY = FALSE /\ AV_KEY = FALSE
          /\ inputSymbols \in RawLists
          /\ query = Undefined
     ELSE /\ API_KEY = FALSE
          /\ FINN_KEY \in BOOLEAN /\ AV_KEY \in BOOLEAN
          /\ inputSymbols = <<>>
          /\ query \in {Undefined} \cup {JoinComma(l) : l \in RawLists}
  /\ pc = "start"
  /\ symbols = <<>>
  /\ i = 0
  /\ rows = <<>> /\ failed = <<>> /\ out = <<>>
  /\ resp = NoResult /\ result = NoResult
  /\ status = 0
  /\ outcome = "pending"
  /\ calls = <<>>
  /\ sleeps = 0
  /\ caught = FALSE
  /\ mockLog = <<>>
  /\ inv = <<>>
  /\ app = <<>>

(***************************************************************************)
(* fetchStocks (api.ts).                                                   *)
(***************************************************************************)
\* lines 113-121: normalize; without a key, the full mock
FetchStocksNoKey ==
  /\ entry = "fetchStocks" /\ pc = "start"
  /\ ~API_KEY
  /\ \E t \in MinuteBuckets :
       result' = [stocks |-> buildMock(NormalizeList(inputSymbols), t),
                  error |-> NoKeyError]
  /\ symbols' = NormalizeList(inputSymbols)
  /\ outcome' = "resolved"
  /\ pc' = "done"
  /\ UNCHANGED <<config, mockLog, inv, app, i, rows, failed, out, resp, status, calls, sleeps, caught>>

\* FetchStocksBegin with the de-duplication of line 113 left out
FetchStocksBeginWithoutSet ==
  /\ entry = "fetchStocks" /\ pc = "start"
  /\ API_KEY
  /\ symbols' = FilterBoolean(NormalizeEach(inputSymbols))
  /\ i' = 0 /\ rows' = <<>> /\ failed' = <<>>
  /\ pc' = "loop"
  /\ UNCHANGED <<config, mockLog, inv, app, out, resp, result, status, outcome, calls, sleeps, caught>>

\* lines 113-127: normalize; with a key, enter the loop
FetchStocksBegin ==
  /\ entry = "fetchStocks" /\ pc = "start"
  /\ API_KEY
  /\ symbols' = NormalizeList(inputSymbols)
  /\ i' = 0 /\ rows' = <<>> /\ failed' = <<>>
  /\ pc' = "loop"
  /\ UNCHANGED <<config, mockLog, inv, app, out, resp, result, status, outcome, calls, sleeps, caught>>

\* lines 128-134: one fetchQuote, its row or its failure, then the delay or the
\* next turn of the loop
FetchQuoteCall ==
  /\ entry = "fetchStocks" /\ pc = "loop"
  /\ i < Len(symbols)
  /\ \E r \in GlobalQuoteResponses :
       LET sym == symbols[i + 1]
           got == fetchQuote(sym, r)
       IN  IF got.tag = "throw"
           THEN /\ outcome' = "rejected"
                /\ pc' = "done"
                /\ calls' = Append(calls, [provider |-> "alphavantage", symbol |-> sym, row |-> FALSE])
                /\ UNCHANGED <<i, rows, failed, caught>>
           ELSE /\ IF got.value # Null
                   THEN rows' = Append(rows, got.value) /\ failed' = failed
                   ELSE failed' = Append(failed, sym) /\ rows' = rows
                /\ calls' = Append(calls, [provider |-> "alphavantage", symbol |-> sym,
                                           row |-> got.value # Null])
                /\ caught' = (caught \/ fetchQuoteTry(sym, r).tag = "throw")
                /\ IF i < Len(symbols) - 1
                   THEN pc' = "sleep" /\ i' = i
                   ELSE pc' = "loop" /\ i' = i + 1
                /\ outcome' = outcome
  /\ UNCHANGED <<config, mockLog, inv, app, symbols, out, resp, result, status, sleeps>>

\* Sleep with the delay after every call, the last one too
SleepAfterEveryCall ==
  /\ entry = "fetchStocks"
  /\ \/ pc = "sleep"
     \/ pc = "loop" /\ i = Len(symbols) /\ sleeps = Len(symbols) - 1 /\ Len(symbols) > 0
  /\ sleeps' = sleeps + 1
  /\ i' = IF pc = "sleep" THEN i + 1 ELSE i
  /\ pc' = "loop"
  /\ UNCHANGED <<config, mockLog, inv, app, symbols, rows, failed, out, resp, result, status, outcome, calls, caught>>

\* line 134: await sleep(250), then i++
Sleep ==
  /\ entry = "fetchStocks" /\ pc = "sleep"
  /\ sleeps' = sleeps + 1
  /\ i' = i + 1
  /\ pc' = "loop"
  /\ UNCHANGED <<config, mockLog, inv, app, symbols, rows, failed, out, resp, result, status, outcome, calls, caught>>

\* lines 137-143: nothing usable, the full mock
ReturnFullMock ==
  /\ entry = "fetchStocks" /\ pc = "loop"
  /\ i >= Len(symbols)
  /\ Len(rows) = 0
  /\ \E t \in MinuteBuckets :
       result' = [stocks |-> buildMock(symbols, t), error |-> NoDataError]
  /\ outcome' = "resolved"
  /\ pc' = "done"
  /\ UNCHANGED <<config, mockLog, inv, app, symbols, i, rows, failed, out, resp, status, calls, sleeps, caught>>

\* new Map over list, then merged.get(key): the last entry of the key, or Null
MapGet(list, key) ==
  LET hits == {k \in DOMAIN list : list[k].symbol = key}
  IN  IF hits = {} THEN Null
      ELSE list[CHOOSE k \in hits : \A m \in hits : m <= k]

\* Array.prototype.filter(Boolean) on rows: undefined entries are dropped
RECURSIVE FilterRows(_)
FilterRows(l) ==
  IF l = <<>> THEN <<>>
  ELSE (IF l[1] = Null THEN <<>> ELSE <<l[1]>>) \o FilterRows(Tail(l))

\* lines 147-152: the merge of the real rows and the mocks of the failed symbols
MergePartial(syms, real, mocks) ==
  FilterRows([k \in DOMAIN syms |-> MapGet(real \o mocks, syms[k])])

\* lines 145-156: partial fallback
ReturnPartial ==
  /\ entry = "fetchStocks" /\ pc = "loop"
  /\ i >= Len(symbols)
  /\ Len(rows) # 0
  /\ Len(failed) > 0
  /\ \E t \in MinuteBuckets :
       result' = [stocks |-> MergePartial(symbols, rows, buildMock(failed, t)),
                  error |-> PartialError]
  /\ outcome' = "resolved"
  /\ pc' = "done"
  /\ UNCHANGED <<config, mockLog, inv, app, symbols, i, rows, failed, out, resp, status, calls, sleeps, caught>>

\* lines 158-159: all good
ReturnAllGood ==
  /\ entry = "fetchStocks" /\ pc = "loop"
  /\ i >= Len(symbols)
  /\ Len(rows) # 0
  /\ Len(failed) = 0
  /\ result' = [stocks |-> rows, error |-> NoError]
  /\ outcome' = "resolved"
  /\ pc' = "done"
  /\ UNCHANGED <<config, mockLog, inv, app, symbols, i, rows, failed, out, resp, status, calls, sleeps, caught>>

(***************************************************************************)
(* handler (the serverless function).                                      *)
(***************************************************************************)
\* lines 144-145
useFinn == FINN_KEY
useAV == AV_KEY

\* lines 140-141, 165-175: the symbols, then the first branch of the chain
HandlerStart ==
  /\ entry = "handler" /\ pc = "start"
  /\ symbols' = uniqueSymbols(query)
  /\ i' = 0 /\ out' = <<>>
  /\ pc' = IF useFinn THEN "fromFinnhub" ELSE IF useAV THEN "fromAV" ELSE "mock"
  /\ UNCHANGED <<config, mockLog, inv, app, rows, failed, resp, result, status, outcome, calls, sleeps, caught>>

\* lines 149-152: one turn of fromFinnhub's loop
FinnhubCall ==
  /\ entry = "handler" /\ pc = "fromFinnhub"
  /\ i < Len(symbols)
  /\ \E x \in FinnhubExchanges :
       LET s == symbols[i + 1]
           row == CatchNull(finnhubQuote(s, x[1], x[2]))
       IN  IF row.tag = "throw"
           THEN /\ outcome' = "rejected" /\ pc' = "done"
                /\ calls' = Append(calls, [provider |-> "finnhub", symbol |-> s, row |-> FALSE])
                /\ UNCHANGED <<i, out, caught>>
           ELSE /\ out' = IF row.value # Null THEN Append(out, row.value) ELSE out
                /\ calls' = Append(calls, [provider |-> "finnhub", symbol |-> s,
                                           row |-> row.value # Null])
                /\ caught' = (caught \/ finnhubQuote(s, x[1], x[2]).tag = "throw")
                /\ i' = i + 1
                /\ UNCHANGED <<pc, outcome>>
  /\ UNCHANGED <<config, mockLog, inv, app, symbols, rows, failed, resp, result, status, sleeps>>

\* FromFinnhubReturn with Alpha Vantage tried whatever Finnhub gave
FromFinnhubReturnThenAV ==
  /\ entry = "handler" /\ pc = "fromFinnhub"
  /\ i >= Len(symbols)
  /\ resp' = IF Len(out) # 0 THEN [stocks |-> out, error |-> NoError]
             ELSE [stocks |-> <<>>, error |-> FinnhubUnavailable]
  /\ pc' = IF useAV THEN "fromAV"
           ELSE IF Len(out) = 0 THEN "mock"
           ELSE "respond"
  /\ i' = 0 /\ out' = <<>>
  /\ UNCHANGED <<config, mockLog, inv, app, symbols, rows, failed, result, status, outcome, calls, sleeps, caught>>

\* lines 153, 167-169: fromFinnhub returns; what the handler does with it
FromFinnhubReturn ==
  /\ entry = "handler" /\ pc = "fromFinnhub"
  /\ i >= Len(symbols)
  /\ resp' = IF Len(out) # 0 THEN [stocks |-> out, error |-> NoError]
             ELSE [stocks |-> <<>>, error |-> FinnhubUnavailable]
  /\ pc' = IF Len(out) = 0 /\ useAV THEN "fromAV"
           ELSE IF Len(out) = 0 THEN "mock"
           ELSE "respond"
  /\ i' = 0 /\ out' = <<>>
  /\ UNCHANGED <<config, mockLog, inv, app, symbols, rows, failed, result, status, outcome, calls, sleeps, caught>>

\* lines 158-161: one turn of fromAV's loop
AVCall ==
  /\ entry = "handler" /\ pc = "fromAV"
  /\ i < Len(symbols)
  /\ \E x \in AVExchanges :
       LET s == symbols[i + 1]
           row == CatchNull(alphaVantageQuote(s, x[1], x[2]))
       IN  IF row.tag = "throw"
           THEN /\ outcome' = "rejected" /\ pc' = "done"
                /\ calls' = Append(calls, [provider |-> "alphavantage", symbol |-> s, row |-> FALSE])
                /\ UNCHANGED <<i, out, caught>>
           ELSE /\ out' = IF row.value # Null THEN Append(out, row.value) ELSE out
                /\ calls' = Append(calls, [provider |-> "alphavantage", symbol |-> s,
                                           row |-> row.value # Null])
                /\ caught' = (caught \/ alphaVantageQuote(s, x[1], x[2]).tag = "throw")
                /\ i' = i + 1
                /\ UNCHANGED <<pc, outcome>>
  /\ UNCHANGED <<config, mockLog, inv, app, symbols, rows, failed, resp, result, status, sleeps>>

\* FromAVReturn with the mock fallback of lines 169 and 172 left out
FromAVReturnWithoutMock ==
  /\ entry = "handler" /\ pc = "fromAV"
  /\ i >= Len(symbols)
  /\ resp' = IF Len(out) # 0 THEN [stocks |-> out, error |-> NoError]
             ELSE [stocks |-> <<>>, error |-> AVUnavailable]
  /\ pc' = "respond"
  /\ i' = 0 /\ out' = <<>>
  /\ UNCHANGED <<config, mockLog, inv, app, symbols, rows, failed, result, status, outcome, calls, sleeps, caught>>

\* lines 162, 168-169, 171-172: fromAV returns; what the handler does with it
FromAVReturn ==
  /\ entry = "handler" /\ pc = "fromAV"
  /\ i >= Len(symbols)
  /\ resp' = IF Len(out) # 0 THEN [stocks |-> out, error |-> NoError]
             ELSE [stocks |-> <<>>, error |-> AVUnavailable]
  /\ pc' = IF Len(out) = 0 THEN "mock" ELSE "respond"
  /\ i' = 0 /\ out' = <<>>
  /\ UNCHANGED <<config, mockLog, inv, app, symbols, rows, failed, result, status, outcome, calls, sleeps, caught>>

\* lines 169, 172, 174: resp = mockData(symbols)
HandlerMock ==
  /\ entry = "handler" /\ pc = "mock"
  /\ \E t \in MinuteBuckets : resp' = mockData(symbols, t)
  /\ pc' = "respond"
  /\ UNCHANGED <<config, mockLog, inv, app, symbols, i, rows, failed, out, result, status, outcome, calls, sleeps, caught>>

\* line 177: res.status(200).json(resp)
Respond ==
  /\ entry = "handler" /\ pc = "respond"
  /\ status' = 200
  /\ result' = resp
  /\ outcome' = "resolved"
  /\ pc' = "done"
  /\ UNCHANGED <<config, mockLog, inv, app, symbols, i, rows, failed, out, resp, calls, sleeps, caught>>

Next ==
  \/ FetchStocksNoKey
  \/ FetchStocksBegin
  \/ FetchQuoteCall
  \/ Sleep
  \/ ReturnFullMock
  \/ ReturnPartial
  \/ ReturnAllGood
  \/ HandlerStart
  \/ FinnhubCall
  \/ FromFinnhubReturn
  \/ AVCall
  \/ FromAVReturn
  \/ HandlerMock
  \/ Respond

Spec == Init /\ [][Next]_vars

(***************************************************************************)
(* The mock generators on their own: buildMock (api.ts) and mockData       *)
(* (stocks.ts) called at times of the clock.  The clock is in whole        *)
(* seconds, so that Math.floor(Date.now() / 60_000) is now \div 60.        *)
(***************************************************************************)
\* Math.floor(Date.now() / 60_000)
MinuteOf(now) == now \div 60

\* times of the clock: three in minute 29500000, two in the next
Times == {1770000000, 1770000030, 1770000059, 1770000060, 1770000090}

\* the symbol lists the generators are called with
MockLists == {<<AAPL>>, <<ZZ>>, <<ZZ, AAPL>>, <<AAPL, ZZ>>, <<MSFT, ZZ>>}

MockInit ==
  /\ entry = "mock"
  /\ API_KEY = FALSE /\ FINN_KEY = FALSE /\ AV_KEY = FALSE
  /\ inputSymbols = <<>> /\ query = Undefined
  /\ pc = "done"
  /\ symbols = <<>>
  /\ i = 0
  /\ rows = <<>> /\ failed = <<>> /\ out = <<>>
  /\ resp = NoResult /\ result = NoResult
  /\ status = 0
  /\ outcome = "pending"
  /\ calls = <<>>
  /\ sleeps = 0
  /\ caught = FALSE
  /\ mockLog = <<>>
  /\ inv = <<>>
  /\ app = <<>>

\* buildMock(l) called at time now
CallBuildMock ==
  /\ Len(mockLog) < MaxMocks
  /\ \E l \in MockLists, now \in Times :
       mockLog' = Append(mockLog, [gen |-> "buildMock", at |-> now,
                               stocks |-> buildMock(l, MinuteOf(now))])
  /\ UNCHANGED <<config, inv, app, pc, symbols, i, rows, failed, out, resp, result, status,
                 outcome, calls, sleeps, caught>>

\* mockData(l) called at time now
CallMockData ==
  /\ Len(mockLog) < MaxMocks
  /\ \E l \in MockLists, now \in Times :
       mockLog' = Append(mockLog, [gen |-> "mockData", at |-> now,
                               stocks |-> mockData(l, MinuteOf(now)).stocks])
  /\ UNCHANGED <<config, inv, app, pc, symbols, i, rows, failed, out, resp, result, status,
                 outcome, calls, sleeps, caught>>

MockNext == CallBuildMock \/ CallMockData

MockSpec == MockInit /\ [][MockNext]_vars

(***************************************************************************)
(* Two invocations of one entry point at a time.  JavaScript runs an       *)
(* invocation up to its next await, so the steps of the two interleave at  *)
(* the awaits.  Each invocation has the local variables of the function;   *)
(* the keys are the module-level constants both read.                      *)
(***************************************************************************)
Procs == {1, 2}

ConcRequests == {<<Str_aapl>>, <<Str_zz, Str_aapl>>}

\* a body with the provider's rate-limit note, and a body with neither a note
\* nor a quote (no data for the symbol)
RateLimitedBody == Body(Str_Limit, Undefined, FALSE, EmptyGQ)
NoDataBody == Body(Undefined, Undefined, FALSE, EmptyGQ)

\* what a call is answered with: a usable response or a failure
ConcQuotes == {PlainQuote, RateLimitedBody, NoDataBody}
ConcFinnhub ==
  { <<FullFinnQuote, FinnProfile(JNum(3550))>>,
    <<FinnQuote(JUndef, JUndef, JUndef, JUndef), FinnProfile(JUndef)>> }
ConcAV ==
  { <<PlainQuote, Overview(Undefined, Str_1200)>>,
    <<RateLimitedBody, Overview(Undefined, Undefined)>> }

\* the local variables of an invocation that has not run yet
NewInvocation(input) ==
  [input |-> input, pc |-> "start", symbols |-> <<>>, i |-> 0, rows |-> <<>>,
   failed |-> <<>>, out |-> <<>>, resp |-> NoResult, result |-> NoResult,
   log |-> <<>>, t |-> 0]

ConcInit ==
  /\ entry \in {"fetchStocks", "handler"}
  /\ API_KEY = (entry = "fetchStocks")
  /\ FINN_KEY = (entry = "handler") /\ AV_KEY = (entry = "handler")
  /\ inputSymbols = <<>> /\ query = Undefined
  /\ pc = "done"
  /\ symbols = <<>>
  /\ i = 0
  /\ rows = <<>> /\ failed = <<>> /\ out = <<>>
  /\ resp = NoResult /\ result = NoResult
  /\ status = 0
  /\ outcome = "pending"
  /\ calls = <<>>
  /\ sleeps = 0
  /\ caught = FALSE
  /\ mockLog = <<>>
  /\ app = <<>>
  /\ inv \in [Procs -> {NewInvocation(IF entry = "fetchStocks" THEN l ELSE JoinComma(l)) :
                          l \in ConcRequests}]

\* what a step of an invocation leaves alone
ConcFrame ==
  UNCHANGED <<config, mockLog, app, pc, symbols, i, rows, failed, out, resp, result,
              status, outcome, calls, sleeps, caught>>

\* fetchStocks lines 137-159: the value returned, given the locals after the loop
FetchStocksResult(syms, real, failedSyms, t) ==
  IF Len(real) = 0 THEN [stocks |-> buildMock(syms, t), error |-> NoDataError]
  ELSE IF Len(failedSyms) > 0
  THEN [stocks |-> MergePartial(syms, real, buildMock(failedSyms, t)), error |-> PartialError]
  ELSE [stocks |-> real, error |-> NoError]

\* fetchStocks lines 113-127 in invocation p
InvBegin(p) ==
  /\ entry = "fetchStocks" /\ inv[p].pc = "start"
  /\ API_KEY
  /\ inv' = [inv EXCEPT ![p].symbols = NormalizeList(inv[p].input),
                        ![p].rows = <<>>, ![p].failed = <<>>, ![p].i = 0,
                        ![p].pc = "loop"]
  /\ ConcFrame

\* InvFetchQuote with rows a module-level array: every invocation sees the row
InvFetchQuoteSharedRows(p) ==
  /\ entry = "fetchStocks" /\ inv[p].pc = "loop"
  /\ inv[p].i < Len(inv[p].symbols)
  /\ \E r \in ConcQuotes :
       inv' = [q \in Procs |->
                 IF fetchQuote(inv[p].symbols[inv[p].i + 1], r).value = Null
                 THEN IF q # p THEN inv[q]
                      ELSE [inv[p] EXCEPT !.failed = Append(@, inv[p].symbols[inv[p].i + 1]),
                                          !.log = Append(@, r),
                                          !.pc = IF inv[p].i < Len(inv[p].symbols) - 1
                                                 THEN "sleep" ELSE "loop",
                                          !.i = IF inv[p].i < Len(inv[p].symbols) - 1
                                                THEN @ ELSE @ + 1]
                 ELSE IF q # p
                      THEN [inv[q] EXCEPT !.rows =
                              Append(@, fetchQuote(inv[p].symbols[inv[p].i + 1], r).value)]
                      ELSE [inv[p] EXCEPT !.rows =
                              Append(@, fetchQuote(inv[p].symbols[inv[p].i + 1], r).value),
                                          !.log = Append(@, r),
                                          !.pc = IF inv[p].i < Len(inv[p].symbols) - 1
                                                 THEN "sleep" ELSE "loop",
                                          !.i = IF inv[p].i < Len(inv[p].symbols) - 1
                                                THEN @ ELSE @ + 1]]
  /\ ConcFrame

\* fetchStocks lines 128-134 in invocation p: one fetchQuote and what follows it
InvFetchQuote(p) ==
  /\ entry = "fetchStocks" /\ inv[p].pc = "loop"
  /\ inv[p].i < Len(inv[p].symbols)
  /\ \E r \in ConcQuotes :
       inv' = [inv EXCEPT ![p] =
                 [inv[p] EXCEPT
                    !.rows = IF fetchQuote(inv[p].symbols[inv[p].i + 1], r).value # Null
                             THEN Append(@, fetchQuote(inv[p].symbols[inv[p].i + 1], r).value)
                             ELSE @,
                    !.failed = IF fetchQuote(inv[p].symbols[inv[p].i + 1], r).value = Null
                               THEN Append(@, inv[p].symbols[inv[p].i + 1])
                               ELSE @,
                    !.log = Append(@, r),
                    !.pc = IF inv[p].i < Len(inv[p].symbols) - 1 THEN "sleep" ELSE "loop",
                    !.i = IF inv[p].i < Len(inv[p].symbols) - 1 THEN @ ELSE @ + 1]]
  /\ ConcFrame

\* fetchStocks line 134 in invocation p
InvSleep(p) ==
  /\ entry = "fetchStocks" /\ inv[p].pc = "sleep"
  /\ inv' = [inv EXCEPT ![p].i = @ + 1, ![p].pc = "loop"]
  /\ ConcFrame

\* fetchStocks lines 137-159 in invocation p
InvReturn(p) ==
  /\ entry = "fetchStocks" /\ inv[p].pc = "loop"
  /\ inv[p].i >= Len(inv[p].symbols)
  /\ \E t \in MinuteBuckets :
       inv' = [inv EXCEPT ![p].result =
                            FetchStocksResult(inv[p].symbols, inv[p].rows, inv[p].failed, t),
                          ![p].t = t,
                          ![p].pc = "done"]
  /\ ConcFrame

\* handler lines 140-141, 165-175 in invocation p
InvHandlerStart(p) ==
  /\ entry = "handler" /\ inv[p].pc = "start"
  /\ inv' = [inv EXCEPT ![p].symbols = uniqueSymbols(inv[p].input),
                        ![p].i = 0, ![p].out = <<>>,
                        ![p].pc = IF useFinn THEN "fromFinnhub"
                                  ELSE IF useAV THEN "fromAV" ELSE "mock"]
  /\ ConcFrame

\* the rows of out after one more adapter call gave got
Pushed(rowsOut, got) == IF got.value # Null THEN Append(rowsOut, got.value) ELSE rowsOut

\* fromFinnhub lines 149-152 in invocation p
InvFinnhubCall(p) ==
  /\ entry = "handler" /\ inv[p].pc = "fromFinnhub"
  /\ inv[p].i < Len(inv[p].symbols)
  /\ \E x \in ConcFinnhub :
       inv' = [inv EXCEPT
                 ![p].out = Pushed(@, CatchNull(finnhubQuote(inv[p].symbols[inv[p].i + 1],
                                                             x[1], x[2]))),
                 ![p].log = Append(@, x),
                 ![p].i = @ + 1]
  /\ ConcFrame

\* the response a provider loop returns, lines 153 and 162
LoopResponse(rowsOut, unavailable) ==
  IF Len(rowsOut) # 0 THEN [stocks |-> rowsOut, error |-> NoError]
  ELSE [stocks |-> <<>>, error |-> unavailable]

\* fromFinnhub line 153, handler lines 167-169 in invocation p
InvFromFinnhubReturn(p) ==
  /\ entry = "handler" /\ inv[p].pc = "fromFinnhub"
  /\ inv[p].i >= Len(inv[p].symbols)
  /\ inv' = [inv EXCEPT
               ![p].resp = LoopResponse(inv[p].out, FinnhubUnavailable),
               ![p].pc = IF Len(inv[p].out) = 0 /\ useAV THEN "fromAV"
                         ELSE IF Len(inv[p].out) = 0 THEN "mock"
                         ELSE "respond",
               ![p].i = 0, ![p].out = <<>>]
  /\ ConcFrame

\* fromAV lines 158-161 in invocation p
InvAVCall(p) ==
  /\ entry = "handler" /\ inv[p].pc = "fromAV"
  /\ inv[p].i < Len(inv[p].symbols)
  /\ \E x \in ConcAV :
       inv' = [inv EXCEPT
                 ![p].out = Pushed(@, CatchNull(alphaVantageQuote(inv[p].symbols[inv[p].i + 1],
                                                                  x[1], x[2]))),
                 ![p].log = Append(@, x),
                 ![p].i = @ + 1]
  /\ ConcFrame

\* fromAV line 162, handler lines 168-169, 171-172 in invocation p
InvFromAVReturn(p) ==
  /\ entry = "handler" /\ inv[p].pc = "fromAV"
  /\ inv[p].i >= Len(inv[p].symbols)
  /\ inv' = [inv EXCEPT
               ![p].resp = LoopResponse(inv[p].out, AVUnavailable),
               ![p].pc = IF Len(inv[p].out) = 0 THEN "mock" ELSE "respond",
               ![p].i = 0, ![p].out = <<>>]
  /\ ConcFrame

\* handler lines 169, 172, 174 in invocation p
InvHandlerMock(p) ==
  /\ entry = "handler" /\ inv[p].pc = "mock"
  /\ \E t \in MinuteBuckets :
       inv' = [inv EXCEPT ![p].resp = mockData(inv[p].symbols, t),
                          ![p].t = t,
                          ![p].pc = "respond"]
  /\ ConcFrame

\* handler line 177 in invocation p
InvRespond(p) ==
  /\ entry = "handler" /\ inv[p].pc = "respond"
  /\ inv' = [inv EXCEPT ![p].result = inv[p].resp, ![p].pc = "done"]
  /\ ConcFrame

ConcNext ==
  \E p \in Procs :
    \/ InvBegin(p)
    \/ InvFetchQuote(p)
    \/ InvSleep(p)
    \/ InvReturn(p)
    \/ InvHandlerStart(p)
    \/ InvFinnhubCall(p)
    \/ InvFromFinnhubReturn(p)
    \/ InvAVCall(p)
    \/ InvFromAVReturn(p)
    \/ InvHandlerMock(p)
    \/ InvRespond(p)

ConcSpec == ConcInit /\ [][ConcNext]_vars

(***************************************************************************)
(* What the properties are stated with.                                    *)
(***************************************************************************)
Range(l) == {l[k] : k \in DOMAIN l}

SymbolsOf(stocks) == [k \in DOMAIN stocks |-> stocks[k].symbol]

\* the raw symbols of the request: fetchStocks' argument, the pieces of the
\* handler's query (none when the query has no symbols parameter)
RequestedRaw ==
  IF entry = "fetchStocks" THEN inputSymbols
  ELSE IF query = Undefined THEN <<>>
  ELSE SplitComma(query)

\* the distinct normalized symbols of the request
RequestedSet == {NormalizeOne(RequestedRaw[k]) : k \in DOMAIN RequestedRaw} \ {<<>>}

\* the de-duplicated, normalized request, in the order of first occurrence
RECURSIVE FirstOccurrences(_)
FirstOccurrences(l) ==
  IF l = <<>> THEN <<>>
  ELSE LET x == NormalizeOne(l[1])
           rest == FirstOccurrences(Tail(l))
       IN  IF x = <<>> THEN rest
           ELSE <<x>> \o SelectSeq(rest, LAMBDA y : y # x)

Requested == FirstOccurrences(RequestedRaw)

\* the invocation has returned its value (fetchStocks) or sent its response (handler)
Done == pc = "done" /\ outcome = "resolved"

HasError == result.error # NoError

AllMock == \A k \in DOMAIN result.stocks : result.stocks[k].src = "mock"

\* position of a symbol in a list that holds it
Pos(l, x) == CHOOSE k \in DOMAIN l : l[k] = x

\* some call for symbol x returned a row of a live provider
LiveRow(x) == \E k \in DOMAIN calls : calls[k].symbol = x /\ calls[k].row

\* the number of rows of the result whose symbol is x
RowsFor(x) == Cardinality({k \in DOMAIN result.stocks : result.stocks[k].symbol = x})

\* no provider credential is configured for the entry point invoked
NoCredential ==
  IF entry = "fetchStocks" THEN ~API_KEY ELSE ~FINN_KEY /\ ~AV_KEY

(***************************************************************************)
(* C1.  fetchStocks: for every non-empty normalized request and every      *)
(* provider outcome, the result has as many records as the request has     *)
(* distinct normalized symbols.                                            *)
(* Violated: a row whose payload names another symbol is lost in the merge *)
(* of the partial path.                                                    *)
(***************************************************************************)
C1_CountEqualsDistinct ==
  (entry = "fetchStocks" /\ Done /\ RequestedSet # {})
    => Len(result.stocks) = Cardinality(RequestedSet)

(***************************************************************************)
(* C2.  handler: when the provider used gave a row for some symbols and    *)
(* none for others, the response has one record per requested symbol, in   *)
(* request order, the failed symbols as mock rows, and a diagnostic.       *)
(* Violated: fromFinnhub / fromAV return the rows they have and no more.   *)
(***************************************************************************)
HandlerPartial ==
  /\ entry = "handler" /\ Done
  /\ \E a, b \in DOMAIN calls :
       calls[a].provider = calls[b].provider /\ calls[a].row /\ ~calls[b].row

C2_HandlerFillsFailed ==
  HandlerPartial =>
    /\ SymbolsOf(result.stocks) = symbols
    /\ \A k \in DOMAIN result.stocks :
         (result.stocks[k].src = "mock") <=> ~LiveRow(result.stocks[k].symbol)
    /\ HasError

(***************************************************************************)
(* C3.  In every result the records are in the order of their symbols in   *)
(* the de-duplicated, normalized request.                                  *)
(* Violated: fetchStocks' all-real path returns the rows in fetch order    *)
(* under the symbols the payloads report.                                  *)
(***************************************************************************)
C3_OrderMatchesInput ==
  Done =>
    \A a, b \in DOMAIN result.stocks :
      (/\ a < b
       /\ result.stocks[a].symbol \in Range(symbols)
       /\ result.stocks[b].symbol \in Range(symbols))
        => Pos(symbols, result.stocks[a].symbol) <= Pos(symbols, result.stocks[b].symbol)

(***************************************************************************)
(* C4.  For a non-empty request, the result has an error exactly when some *)
(* requested symbol got no row of a live provider.                         *)
(* Violated: the handler answers a partly failed provider with no error.   *)
(***************************************************************************)
C4_ErrorIffNotLive ==
  (Done /\ RequestedSet # {})
    => (HasError <=> \E x \in RequestedSet : ~LiveRow(x))

(***************************************************************************)
(* C5.  With no credential configured no provider call is ever made, and   *)
(* the result is one mock row for each distinct normalized symbol, in      *)
(* request order, with the error set.                                      *)
(***************************************************************************)
C5_NoCredentialAllMock ==
  NoCredential =>
    /\ calls = <<>>
    /\ Done =>
         /\ HasError
         /\ AllMock
         /\ \A x \in RequestedSet : RowsFor(x) = 1
         /\ RequestedSet # {} => SymbolsOf(result.stocks) = Requested

\* the scenario request without a key: exactly AAPL and MSFT, both mock
C5_Witness ==
  /\ Done /\ NoCredential
  /\ entry = "fetchStocks" /\ inputSymbols = ScenarioRequest
  /\ SymbolsOf(result.stocks) = <<AAPL, MSFT>>
  /\ AllMock /\ HasError

(***************************************************************************)
(* C6.  fetchStocks, partial failure: every row the provider returned is   *)
(* in the result as returned, every failed symbol has a mock row, and the  *)
(* error is the partial-fallback message.                                  *)
(* Violated: a returned row is dropped, or replaced by a mock, when its    *)
(* payload names another symbol.                                           *)
(***************************************************************************)
C6_PartialKeepsProviderRows ==
  (entry = "fetchStocks" /\ Done /\ Len(rows) > 0 /\ Len(failed) > 0)
    => /\ result.error = PartialError
       /\ \A j \in DOMAIN rows : rows[j] \in Range(result.stocks)
       /\ \A f \in DOMAIN failed :
            \E k \in DOMAIN result.stocks :
              result.stocks[k].symbol = failed[f] /\ result.stocks[k].src = "mock"

(***************************************************************************)
(* C7.  Total unavailability: when a provider is configured and no call of *)
(* the request gave a row, the result is a mock row for every requested    *)
(* symbol, in request order, no row is real, and the error is set.         *)
(***************************************************************************)
TotalUnavailability ==
  /\ Done /\ ~NoCredential
  /\ \A k \in DOMAIN calls : ~calls[k].row

C7_TotalUnavailabilityAllMock ==
  TotalUnavailability =>
    /\ HasError
    /\ AllMock
    /\ \A x \in RequestedSet : RowsFor(x) = 1
    /\ RequestedSet # {} => SymbolsOf(result.stocks) = Requested

\* the handler after Finnhub and Alpha Vantage both gave nothing for two symbols
C7_Witness ==
  /\ TotalUnavailability
  /\ entry = "handler" /\ FINN_KEY /\ AV_KEY
  /\ Len(calls) = 4
  /\ SymbolsOf(result.stocks) = <<AAPL, MSFT>>
  /\ AllMock /\ HasError

(***************************************************************************)
(* C8.  No provider failure escapes: no invocation ends rejected; one that *)
(* has ended has resolved with a well-formed {stocks, error?} value, and   *)
(* the handler has sent status 200.                                        *)
(***************************************************************************)
StockDataFields ==
  {"symbol", "price", "change", "changePercent", "marketCap", "volume",
   "lastUpdated", "src"}

WellFormed(r) ==
  /\ DOMAIN r = {"stocks", "error"}
  /\ \A k \in DOMAIN r.stocks :
       /\ DOMAIN r.stocks[k] = StockDataFields
       /\ r.stocks[k].symbol # <<>>
  /\ r.error \in {NoError, NoKeyError, NoDataError, PartialError, MockUnavailable,
                  FinnhubUnavailable, AVUnavailable}

C8_NoFailureEscapes ==
  /\ outcome # "rejected"
  /\ pc = "done" =>
       /\ outcome = "resolved"
       /\ WellFormed(result)
       /\ entry = "handler" => status = 200

\* an invocation that caught an adapter's exception and still resolved
C8_Witness ==
  /\ Done /\ caught
  /\ WellFormed(result)
  /\ Len(calls) >= 2

(***************************************************************************)
(* C9.  Whenever the normalized request is empty, the default symbols      *)
(* AAPL, MSFT, GOOGL, AMZN, NVDA stand in and the result has one row for   *)
(* each of them.                                                           *)
(* Violated: uniqueSymbols takes the defaults only when the query has no   *)
(* symbols parameter; for "" and "," the handler answers with no row.      *)
(***************************************************************************)
C9_DefaultsSubstituted ==
  (Done /\ RequestedSet = {}) => SymbolsOf(result.stocks) = defaultSymbols

(***************************************************************************)
(* C10.  fetchStocks: the symbols of a result are pairwise distinct, and   *)
(* when no fetch failed they are the requested symbols.                    *)
(* Violated: two payloads that name the same symbol give two rows of it.   *)
(***************************************************************************)
C10_SymbolsDistinct ==
  (entry = "fetchStocks" /\ Done) =>
    /\ \A a, b \in DOMAIN result.stocks :
         a # b => result.stocks[a].symbol # result.stocks[b].symbol
    /\ (API_KEY /\ Len(failed) = 0 /\ Len(rows) > 0)
         => Range(SymbolsOf(result.stocks)) = RequestedSet

(***************************************************************************)
(* C11.  The symbol list is normalized before the first provider call: no  *)
(* call is made while the list is not computed; once computed it is the    *)
(* trimmed, upper-cased request in the order of first occurrence, with no  *)
(* duplicate and no empty entry, and normalizing it again changes nothing; *)
(* every provider call is for a symbol of the list, and no symbol is       *)
(* fetched twice from the same provider.                                   *)
(***************************************************************************)
\* the raw pieces the normalization is applied to
NormalizationInput ==
  IF entry = "fetchStocks" THEN inputSymbols
  ELSE SplitComma(IF query = Undefined THEN JoinComma(defaultSymbols) ELSE query)

C11_NormalizedBeforeCalls ==
  /\ pc = "start" => calls = <<>>
  /\ pc # "start" =>
       /\ symbols = FirstOccurrences(NormalizationInput)
       /\ \A a, b \in DOMAIN symbols : a # b => symbols[a] # symbols[b]
       /\ \A a \in DOMAIN symbols : symbols[a] # <<>>
       /\ NormalizeList(symbols) = symbols
       /\ \A k \in DOMAIN calls : calls[k].symbol \in Range(symbols)
       /\ \A a, b \in DOMAIN calls :
            (a # b /\ calls[a].provider = calls[b].provider)
              => calls[a].symbol # calls[b].symbol

\* the scenario request with a key: three raw symbols, two calls
C11_Witness ==
  /\ entry = "fetchStocks" /\ inputSymbols = ScenarioRequest
  /\ symbols = <<AAPL, MSFT>>
  /\ Len(calls) = 2
  /\ calls[1].symbol = AAPL /\ calls[2].symbol = MSFT

(***************************************************************************)
(* C12.  Mock generation is deterministic within a minute: two calls of    *)
(* the same generator in the same minute bucket floor(seconds / 60) give,  *)
(* for the same symbol at the same index, the same price, change,          *)
(* changePercent, marketCap and volume.                                    *)
(***************************************************************************)
NumericFields(row) ==
  <<row.price, row.change, row.changePercent, row.marketCap, row.volume>>

C12_MockDeterministic ==
  \A a, b \in DOMAIN mockLog :
    (mockLog[a].gen = mockLog[b].gen /\ mockLog[a].at \div 60 = mockLog[b].at \div 60)
      => \A k \in DOMAIN mockLog[a].stocks \cap DOMAIN mockLog[b].stocks :
           mockLog[a].stocks[k].symbol = mockLog[b].stocks[k].symbol
             => NumericFields(mockLog[a].stocks[k]) = NumericFields(mockLog[b].stocks[k])

\* two calls at different seconds of one minute, with different lists that
\* have ZZ first; a call in the next minute gives another price
C12_Witness ==
  /\ Len(mockLog) = 2
  /\ mockLog[1].gen = mockLog[2].gen
  /\ mockLog[1].at = 1770000000 /\ mockLog[2].at = 1770000059
  /\ Len(mockLog[1].stocks) = 1 /\ Len(mockLog[2].stocks) = 2
  /\ mockLog[1].stocks[1].symbol = ZZ /\ mockLog[2].stocks[1].symbol = ZZ
  /\ mockLog[1].stocks[1].price = mockLog[2].stocks[1].price
  /\ buildMock(<<ZZ>>, MinuteOf(1770000060))[1].price # mockLog[1].stocks[1].price

(***************************************************************************)
(* C13.  handler, the order of the fallback chain: Finnhub calls come      *)
(* first when its key is set; Alpha Vantage is called exactly when its key *)
(* is set and Finnhub has no key or gave no row for the whole request, and *)
(* then for every symbol of the list; mock data is produced only after     *)
(* every configured provider was called for every symbol and gave no row;  *)
(* once a provider has given a row, no other provider is called.           *)
(***************************************************************************)
\* the symbols the provider was called for, in call order
CalledSymbols(provider) ==
  SymbolsOf(SelectSeq(calls, LAMBDA c : c.provider = provider))

\* some call of the provider gave a row
GaveRow(provider) ==
  \E k \in DOMAIN calls : calls[k].provider = provider /\ calls[k].row

\* the chain is past fromFinnhub / past both providers
PastFinnhub == pc \in {"fromAV", "mock", "respond", "done"}
PastProviders == pc \in {"mock", "respond", "done"}

C13_ChainOrder ==
  entry = "handler" =>
    /\ (FINN_KEY /\ calls # <<>>) => calls[1].provider = "finnhub"
    /\ \A a, b \in DOMAIN calls :
         (a < b /\ calls[a].provider = "alphavantage") => calls[b].provider = "alphavantage"
    /\ (FINN_KEY /\ PastFinnhub) => CalledSymbols("finnhub") = symbols
    /\ (pc = "fromAV" \/ CalledSymbols("alphavantage") # <<>>)
         => (AV_KEY /\ (~FINN_KEY \/ (PastFinnhub /\ ~GaveRow("finnhub"))))
    /\ (PastProviders /\ AV_KEY /\ (~FINN_KEY \/ ~GaveRow("finnhub")))
         => CalledSymbols("alphavantage") = symbols
    /\ (pc = "mock" \/ resp.error = MockUnavailable)
         => /\ \A k \in DOMAIN calls : ~calls[k].row
            /\ FINN_KEY => CalledSymbols("finnhub") = symbols
            /\ AV_KEY => CalledSymbols("alphavantage") = symbols
    /\ \A a, b \in DOMAIN calls :
         (a < b /\ calls[a].row) => calls[b].provider = calls[a].provider

\* both keys set, Finnhub gave nothing for two symbols, Alpha Vantage was then
\* called for both and gave a row: no mock
C13_Witness ==
  /\ entry = "handler" /\ Done /\ FINN_KEY /\ AV_KEY
  /\ Len(symbols) = 2
  /\ CalledSymbols("finnhub") = symbols /\ ~GaveRow("finnhub")
  /\ CalledSymbols("alphavantage") = symbols /\ GaveRow("alphavantage")
  /\ ~AllMock

(***************************************************************************)
(* C14.  fetchStocks, the merge of the partial path: a symbol of the list  *)
(* that has both a real row (a row the provider returned under that        *)
(* symbol) and a mock row (it is among the failed symbols) has the real    *)
(* row in the result.                                                      *)
(* Violated: the mocks are set in the map after the real rows, so the mock *)
(* row replaces the real one.                                              *)
(***************************************************************************)
\* the symbol has a real row and a mock row among the candidates of the merge
HasBothRows(x) ==
  /\ \E j \in DOMAIN rows : rows[j].symbol = x
  /\ \E f \in DOMAIN failed : failed[f] = x

C14_MergePrefersReal ==
  (entry = "fetchStocks" /\ Done /\ Len(rows) > 0 /\ Len(failed) > 0)
    => \A x \in Range(symbols) :
         HasBothRows(x)
           => \E k \in DOMAIN result.stocks :
                /\ result.stocks[k].symbol = x
                /\ result.stocks[k].src # "mock"
                /\ result.stocks[k] \in Range(rows)

(***************************************************************************)
(* C15.  No Alpha Vantage adapter returns a record whose price, change or  *)
(* changePercent did not parse to a finite number: every row taken from    *)
(* fetchQuote (client) and from alphaVantageQuote (server) has the three   *)
(* fields as numbers.                                                      *)
(* Violated: the server's num gives NaN for an unparseable field, NaN is   *)
(* not null, and the record is returned with it.                           *)
(***************************************************************************)
MandatoryParsed(row) ==
  row.price.k = "num" /\ row.change.k = "num" /\ row.changePercent.k = "num"

\* the rows the invocation holds that an Alpha Vantage adapter returned
AVRowsHeld ==
  {r \in Range(rows) \cup Range(out) \cup Range(resp.stocks) \cup Range(result.stocks) :
     r.src = "alphavantage"}

C15_MandatoryFieldsParsed == \A r \in AVRowsHeld : MandatoryParsed(r)

(***************************************************************************)
(* C16.  handler, market-cap enrichment is best effort: for every symbol   *)
(* of the request, whenever the quote call gives a usable quote, the       *)
(* adapter call (finnhubQuote, alphaVantageQuote, as fromFinnhub and       *)
(* fromAV make it) gives a record whatever the enrichment call gives, the  *)
(* record differs from the one of a successful enrichment in marketCap     *)
(* only, and marketCap is a number or absent.                              *)
(* Violated: finnhubQuote awaits the profile fetch outside any catch, so a *)
(* rejected profile fetch loses the quote.                                 *)
(***************************************************************************)
\* the quote call gave what the adapter makes a record of
UsableFinnQuote(q) == q.net = "ok" /\ q.json = "ok" /\ ~q.isNull /\ q.c.k = "num"

UsableGlobalQuote(r) ==
  /\ r.net = "ok" /\ r.json = "ok" /\ ~r.isNull /\ ~Truthy(r.Note) /\ r.hasGQ
  /\ num(r.gq.price).k = "num" /\ num(r.gq.change).k = "num"
  /\ num(r.gq.changePercent).k = "num"
  /\ ~CloseThrows(r.gq.latestDay)

\* two records that differ in marketCap at most
SameButCap(a, b) == [a EXCEPT !.marketCap = JUndef] = [b EXCEPT !.marketCap = JUndef]

BestEffort(got, full) ==
  /\ got.tag = "return" /\ got.value # Null
  /\ SameButCap(got.value, full.value)
  /\ got.value.marketCap.k \in {"num", "undef"}

C16_FinnhubEnrichment(s) ==
  \A x \in FinnhubExchanges :
    UsableFinnQuote(x[1])
      => BestEffort(CatchNull(finnhubQuote(s, x[1], x[2])),
                    finnhubQuote(s, x[1], FinnProfile(JNum(3550))))

C16_AVEnrichment(s) ==
  \A x \in AVExchanges :
    UsableGlobalQuote(x[1])
      => BestEffort(CatchNull(alphaVantageQuote(s, x[1], x[2])),
                    alphaVantageQuote(s, x[1], Overview(Undefined, Str_1200)))

C16_EnrichmentBestEffort ==
  (entry = "handler" /\ pc # "start")
    => \A k \in DOMAIN symbols :
         /\ FINN_KEY => C16_FinnhubEnrichment(symbols[k])
         /\ AV_KEY => C16_AVEnrichment(symbols[k])

(***************************************************************************)
(* C17.  fetchStocks paces its calls: the calls are for the symbols of the *)
(* list in order, one per symbol; call k+1 is made only after call k has   *)
(* settled and k delays have been taken; no delay follows the last call;   *)
(* a request over n >= 1 symbols has made n calls and n-1 delays when it   *)
(* resolves.                                                               *)
(***************************************************************************)
C17_Paced ==
  (entry = "fetchStocks" /\ API_KEY /\ pc # "start") =>
    /\ Len(calls) <= Len(symbols)
    /\ SymbolsOf(calls) = SubSeq(symbols, 1, Len(calls))
    /\ (pc = "loop" /\ i < Len(symbols)) => (Len(calls) = i /\ sleeps = i)
    /\ pc = "sleep" => (Len(calls) = i + 1 /\ sleeps = i /\ Len(calls) < Len(symbols))
    /\ ((pc = "loop" /\ i >= Len(symbols)) \/ Done)
         => /\ Len(calls) = Len(symbols)
            /\ Len(symbols) >= 1 => sleeps = Len(symbols) - 1
            /\ Len(symbols) = 0 => sleeps = 0

\* a request of three symbols that has resolved: three calls, two delays
C17_Witness ==
  /\ entry = "fetchStocks" /\ API_KEY /\ Done
  /\ inputSymbols = ThreeRequest
  /\ Len(calls) = 3 /\ sleeps = 2

(***************************************************************************)
(* C18.  Concurrent invocations do not interfere: under every interleaving *)
(* of two invocations, the rows, the failed symbols and the result of each *)
(* are what its own symbol list and the responses to its own calls give    *)
(* when the function runs alone.                                           *)
(***************************************************************************)
\* fetchStocks run alone: rows and failed after calls answered by log
RECURSIVE SoloRows(_, _)
SoloRows(syms, log) ==
  IF syms = <<>> \/ log = <<>> THEN <<>>
  ELSE Pushed(<<>>, fetchQuote(syms[1], log[1])) \o SoloRows(Tail(syms), Tail(log))

RECURSIVE SoloFailed(_, _)
SoloFailed(syms, log) ==
  IF syms = <<>> \/ log = <<>> THEN <<>>
  ELSE (IF fetchQuote(syms[1], log[1]).value = Null THEN <<syms[1]>> ELSE <<>>)
       \o SoloFailed(Tail(syms), Tail(log))

\* a provider loop of the handler run alone
RECURSIVE SoloFinnhub(_, _)
SoloFinnhub(syms, log) ==
  IF syms = <<>> THEN <<>>
  ELSE Pushed(<<>>, CatchNull(finnhubQuote(syms[1], log[1][1], log[1][2])))
       \o SoloFinnhub(Tail(syms), Tail(log))

RECURSIVE SoloAV(_, _)
SoloAV(syms, log) ==
  IF syms = <<>> THEN <<>>
  ELSE Pushed(<<>>, CatchNull(alphaVantageQuote(syms[1], log[1][1], log[1][2])))
       \o SoloAV(Tail(syms), Tail(log))

\* the handler run alone with both keys: its response, given the responses to
\* its calls (Finnhub's first) and the minute of its mock
SoloHandler(syms, log, t) ==
  IF SoloFinnhub(syms, log) # <<>>
  THEN [stocks |-> SoloFinnhub(syms, log), error |-> NoError]
  ELSE IF SoloAV(syms, SubSeq(log, Len(syms) + 1, Len(log))) # <<>>
  THEN [stocks |-> SoloAV(syms, SubSeq(log, Len(syms) + 1, Len(log))), error |-> NoError]
  ELSE mockData(syms, t)

OwnFetchStocks(me) ==
  me.pc # "start" =>
    /\ me.symbols = NormalizeList(me.input)
    /\ me.rows = SoloRows(me.symbols, me.log)
    /\ me.failed = SoloFailed(me.symbols, me.log)
    /\ me.pc = "done" =>
         /\ Len(me.log) = Len(me.symbols)
         /\ me.result = FetchStocksResult(NormalizeList(me.input),
                                          SoloRows(NormalizeList(me.input), me.log),
                                          SoloFailed(NormalizeList(me.input), me.log), me.t)

OwnHandler(me) ==
  me.pc = "done" =>
    me.result = SoloHandler(uniqueSymbols(me.input), me.log, me.t)

C18_NoInterference ==
  \A p \in DOMAIN inv :
    IF entry = "fetchStocks" THEN OwnFetchStocks(inv[p]) ELSE OwnHandler(inv[p])

\* two fetchStocks invocations of the same request in flight at once: one has
\* resolved with a partial result, the other is in its delay with a row
C18_Witness ==
  /\ entry = "fetchStocks" /\ DOMAIN inv = Procs
  /\ inv[1].input = inv[2].input
  /\ inv[1].pc = "done" /\ inv[1].result.error = PartialError
  /\ inv[2].pc = "sleep" /\ Len(inv[2].rows) = 1

\* two handler invocations: one answered by Alpha Vantage after Finnhub gave
\* nothing, the other in the middle of its Finnhub loop
C18_WitnessHandler ==
  /\ entry = "handler" /\ DOMAIN inv = Procs
  /\ inv[1].pc = "done" /\ Len(inv[1].log) = 4 /\ inv[1].result.error = NoError
  /\ inv[2].pc = "fromFinnhub" /\ inv[2].i = 1 /\ Len(inv[2].symbols) = 2

(***************************************************************************)
(* C19.  The diagnostic tells the rate-limited outcome from the no-data    *)
(* outcome: two fetchStocks requests for the same symbols whose responses  *)
(* differ only in that one symbol got a rate-limit note in one request and *)
(* an empty body in the other have different diagnostics.  The diagnostic  *)
(* is the error of the result; fetchStocks and fetchQuote write no log.    *)
(* Violated: fetchQuote returns null for both, and the error messages are  *)
(* fixed texts.                                                            *)
(***************************************************************************)
\* the two logs are the same but for one call, rate-limited in a, no data in b
DifferOnlyInSignal(a, b) ==
  /\ Len(a) = Len(b)
  /\ \E k \in DOMAIN a :
       /\ rateLimited(a[k])
       /\ ~rateLimited(b[k]) /\ b[k].net = "ok" /\ b[k].json = "ok" /\ ~b[k].isNull
       /\ ~b[k].hasGQ
       /\ \A m \in DOMAIN a : m # k => a[m] = b[m]

C19_DiagnosticTellsRateLimit ==
  entry = "fetchStocks" =>
    \A p, q \in DOMAIN inv :
      (/\ inv[p].pc = "done" /\ inv[q].pc = "done"
       /\ inv[p].input = inv[q].input
       /\ DifferOnlyInSignal(inv[p].log, inv[q].log))
        => inv[p].result.error # inv[q].result.error

(***************************************************************************)
(* App (App.tsx).  The component's state is symbols, rows, loading, error  *)
(* and query.  An event handler is a closure of the render it was made in: *)
(* it reads the state of that render, and what it sets shows in the next   *)
(* render, which React commits before the next event.  A load in flight    *)
(* holds the symbols its closure read.                                     *)
(***************************************************************************)
\* how many loads are in flight at a time
MaxLoads == 2

Str_tsla == <<"t","s","l","a">>

\* what the user types in the input
QueryTexts == {<<>>, Str_tsla, Str_msft}

\* a saved list one short of the 16 the component keeps
FifteenList ==
  <<AAPL, GOOGL, AMZN, NVDA, META, ZZ>> \o [k \in 1..9 |-> <<"X", Digits[k + 1]>>]

\* the symbols state after construction: the saved list, or DEFAULT_SYMBOLS
SavedLists == {<<AAPL>>, defaultSymbols, FifteenList}

NoLoad == [symbols |-> <<>>, by |-> "none", added |-> <<>>]

AppInit ==
  /\ entry = "App"
  /\ API_KEY \in BOOLEAN
  /\ FINN_KEY = FALSE /\ AV_KEY = FALSE
  /\ inputSymbols = <<>> /\ query = Undefined
  /\ pc = "done"
  /\ symbols = <<>>
  /\ i = 0
  /\ rows = <<>> /\ failed = <<>> /\ out = <<>>
  /\ resp = NoResult /\ result = NoResult
  /\ status = 0
  /\ outcome = "pending"
  /\ calls = <<>>
  /\ sleeps = 0
  /\ caught = FALSE
  /\ mockLog = <<>>
  /\ inv = <<>>
  /\ \E saved \in SavedLists :
       app = [symbols |-> saved, rows |-> <<>>, loading |-> FALSE, error |-> NoError,
              query |-> <<>>, booted |-> FALSE, loads |-> <<>>, last |-> NoLoad]

AppFrame ==
  UNCHANGED <<config, mockLog, inv, pc, symbols, i, rows, failed, out, resp, result,
              status, outcome, calls, sleeps, caught>>

\* load(), up to its await: lines 35-38.  list is the symbols of the closure
\* that load belongs to.
StartLoad(a, list, by, added) ==
  [a EXCEPT !.loading = TRUE, !.error = NoError,
            !.loads = Append(@, [symbols |-> list, by |-> by, added |-> added])]

\* lines 61-64: the effect of the first render
Boot ==
  /\ entry = "App" /\ ~app.booted
  /\ app' = [StartLoad(app, app.symbols, "boot", <<>>) EXCEPT !.booted = TRUE]
  /\ AppFrame

\* line 160: onChange
TypeQuery ==
  /\ entry = "App" /\ app.booted
  /\ \E text \in QueryTexts : app' = [app EXCEPT !.query = text]
  /\ AppFrame

\* addSymbol with the slice(0, 16) of line 70 left out
addSymbolWithoutCap ==
  /\ entry = "App" /\ app.booted
  /\ Len(app.loads) < MaxLoads
  /\ IF NormalizeOne(app.query) = <<>>
        \/ \E k \in DOMAIN app.symbols : app.symbols[k] = NormalizeOne(app.query)
     THEN app' = app
     ELSE app' = StartLoad([app EXCEPT
                              !.symbols = Append(app.symbols, NormalizeOne(app.query)),
                              !.query = <<>>],
                           app.symbols, "add", NormalizeOne(app.query))
  /\ AppFrame

\* lines 67-74: addSymbol, by the Add button or the Enter key.  load() is the
\* load of the render addSymbol was made in, so it reads that render's symbols.
addSymbol ==
  /\ entry = "App" /\ app.booted
  /\ Len(app.loads) < MaxLoads
  /\ IF NormalizeOne(app.query) = <<>>
        \/ \E k \in DOMAIN app.symbols : app.symbols[k] = NormalizeOne(app.query)
     THEN app' = app
     ELSE app' = StartLoad([app EXCEPT
                              !.symbols = SubSeq(Append(app.symbols, NormalizeOne(app.query)),
                                                 1, IF Len(app.symbols) + 1 < 16
                                                    THEN Len(app.symbols) + 1 ELSE 16),
                              !.query = <<>>],
                           app.symbols, "add", NormalizeOne(app.query))
  /\ AppFrame

\* line 167: the Refresh button, disabled while loading
Refresh ==
  /\ entry = "App" /\ app.booted
  /\ Len(app.loads) < MaxLoads
  /\ ~app.loading
  /\ app' = StartLoad(app, app.symbols, "refresh", <<>>)
  /\ AppFrame

\* how the provider answers the calls of one fetchStocks: every call with a
\* quote, or the first call with the rate-limit note and the others with a quote
AppLogs(syms) ==
  { [k \in DOMAIN syms |-> PlainQuote],
    [k \in DOMAIN syms |-> IF k = 1 THEN RateLimitedBody ELSE PlainQuote] }

\* the minute the loads of the component settle in
AppMinute == 29500000

\* fetchStocks lines 129-131: one turn of the loop, before the turns in rest
LoopTurn(sym, got, rest) ==
  [rows   |-> IF got.value # Null THEN <<got.value>> \o rest.rows ELSE rest.rows,
   failed |-> IF got.value = Null THEN <<sym>> \o rest.failed ELSE rest.failed]

\* fetchStocks lines 123-135: rows and failed after the loop, its calls
\* answered by log
RECURSIVE LoopOver(_, _)
LoopOver(syms, log) ==
  IF syms = <<>> THEN [rows |-> <<>>, failed |-> <<>>]
  ELSE LoopTurn(syms[1], fetchQuote(syms[1], log[1]), LoopOver(Tail(syms), Tail(log)))

\* fetchStocks lines 137-159, given the locals after the loop
AfterLoop(syms, locals, t) == FetchStocksResult(syms, locals.rows, locals.failed, t)

\* fetchStocks(list) run to its end, its calls answered by log
FetchStocksValue(list, log, t) ==
  IF ~API_KEY
  THEN [stocks |-> buildMock(NormalizeList(list), t), error |-> NoKeyError]
  ELSE AfterLoop(NormalizeList(list), LoopOver(NormalizeList(list), log), t)

\* a by-position removal
RemoveAt(l, k) == SubSeq(l, 1, k - 1) \o SubSeq(l, k + 1, Len(l))

\* load(), from its await on: lines 38-40 and 55-57.  fetchStocks does not
\* reject, so the catch block of lines 41-54 is not entered.
LoadSettles ==
  /\ entry = "App"
  /\ \E k \in DOMAIN app.loads :
       \E log \in AppLogs(NormalizeList(app.loads[k].symbols)) :
         \E value \in {FetchStocksValue(app.loads[k].symbols, log, AppMinute)} :
           app' = [app EXCEPT
                     !.rows = value.stocks,
                     !.error = IF value.error # NoError THEN value.error ELSE @,
                     !.loading = FALSE,
                     !.loads = RemoveAt(@, k),
                     !.last = app.loads[k]]
  /\ AppFrame

AppNext == Boot \/ TypeQuery \/ addSymbol \/ Refresh \/ LoadSettles

AppSpec == AppInit /\ [][AppNext]_vars

(***************************************************************************)
(* C20.  App.addSymbol: when a non-empty symbol that is not in the list is *)
(* added, the load addSymbol starts calls fetchStocks with a list that has *)
(* the new symbol, and the rows shown when that load has settled have a    *)
(* row for it.                                                             *)
(* Violated: load() reads the symbols of the render before the addition.   *)
(***************************************************************************)
C20_AddedSymbolLoaded ==
  entry = "App" =>
    /\ \A k \in DOMAIN app.loads :
         app.loads[k].by = "add" => app.loads[k].added \in Range(app.loads[k].symbols)
    /\ app.last.by = "add" =>
         \E r \in DOMAIN app.rows : app.rows[r].symbol = app.last.added

(***************************************************************************)
(* C21.  App, the loading flag: in every state of the component, under     *)
(* every interleaving of the loads started by the boot effect, the Refresh *)
(* button and addSymbol, loading is true while some load is in flight and  *)
(* false when none is.                                                     *)
(* Violated: every load sets loading to false when it settles, also while  *)
(* another load is still in flight.                                        *)
(***************************************************************************)
C21_LoadingWhileInFlight ==
  entry = "App" => (app.loading <=> app.loads # <<>>)

(***************************************************************************)
(* C22.  App, the symbol list: from a saved list of at most 16 distinct    *)
(* upper-case symbols, after any addSymbol calls the list has at most 16   *)
(* entries, no duplicate and no empty entry; a step keeps every entry at   *)
(* its position; and a step taken with a query that is empty or names a    *)
(* symbol of the list leaves the list as it is and starts no load, when    *)
(* the step is not the Refresh button's.                                   *)
(***************************************************************************)
SymbolListWellFormed(l) ==
  /\ Len(l) <= 16
  /\ \A a, b \in DOMAIN l : a # b => l[a] # l[b]
  /\ \A a \in DOMAIN l : l[a] # <<>> /\ l[a] = ToUpperCase(l[a])

\* what a step may do to the list
SymbolListStep ==
  /\ Len(app'.symbols) >= Len(app.symbols)
  /\ \A k \in DOMAIN app.symbols : app'.symbols[k] = app.symbols[k]
  /\ (/\ app.booted
      /\ \/ Trim(app.query) = <<>>
         \/ ToUpperCase(Trim(app.query)) \in Range(app.symbols))
       => /\ app'.symbols = app.symbols
          /\ Cardinality({k \in DOMAIN app'.loads : app'.loads[k].by = "add"})
               <= Cardinality({k \in DOMAIN app.loads : app.loads[k].by = "add"})

C22_SymbolList ==
  /\ [](entry = "App" => SymbolListWellFormed(app.symbols))
  /\ [][entry = "App" => SymbolListStep]_vars

\* the list of 15 has grown to 16 by one addition, and a second addition, of a
\* symbol that did not fit, has started its load
C22_Witness ==
  /\ entry = "App"
  /\ Len(app.symbols) = 16
  /\ SubSeq(app.symbols, 1, 15) = FifteenList
  /\ \E k \in DOMAIN app.loads :
       /\ app.loads[k].by = "add"
       /\ app.loads[k].symbols = app.symbols
       /\ app.loads[k].added \notin Range(app.symbols)

====
